---- MODULE Spec2Model ----
(***************************************************************************)
(* A model of the resterror package: the Error chain node (Error.go), the  *)
(* chain resolvers ErrorKind / ErrorMessage / Is, and the boundary         *)
(* translator rootHandler.ServeHttp (handler.go).                          *)
(*                                                                         *)
(* An error value is a record [nodes, tail]: nodes is the sequence of      *)
(* *Error nodes from the outermost (index 1) inwards, each node's Err      *)
(* being the rest of the sequence; tail is what the innermost node's Err   *)
(* holds, nil or a foreign error.  nodes = <<>> is the bare tail: the nil  *)
(* error or a foreign error on its own.                                    *)
(*                                                                         *)
(* Strings are TLA+ strings; a JSON document is the sequence of its        *)
(* tokens.                                                                 *)
(***************************************************************************)
EXTENDS Integers, Sequences, FiniteSets, TLC

VARIABLES err, pc, log, resp, trace, body, pending, res, running

vars == <<err, pc, log, resp, trace, body, pending, res, running>>

(***************************************************************************)
(* Bounds of the model.                                                    *)
(***************************************************************************)
\* The deepest chain of *Error nodes the handler's layers build.
MaxDepth == 2

(***************************************************************************)
(* codes.go                                                                *)
(***************************************************************************)
ECONFLICT == "conflict"
PERMISSION == "permission"
EINTERNAL == "internal"
EINVALID == "invalid"
ENOTFOUND == "item_does_not_exist"
EEXIST == "item_already_exists"
\* OTHER in codes.go (OTHER is a reserved word of TLA+).
Other == "other"
MethodNotAllowed == "method_not_allowed"
EPARSE == "parse_error"

\* The generic text of ErrorMessage.
GenericMessage == "An internal error has occurred. Please contact technical support."

(***************************************************************************)
(* Error values.                                                           *)
(***************************************************************************)
\* The nil error.
NilTail == [tag |-> "nil", text |-> "", json |-> <<"null">>]

\* A foreign error: a value of a type of another package; text is what its
\* Error() returns, json the tokens encoding/json encodes the value as (its
\* exported fields), <<>> when the value cannot be encoded.
ForeignErr(text, json) == [tag |-> "foreign", text |-> text, json |-> json]

\* The encoding of a value without exported fields (errors.New, fmt.Errorf).
EmptyObject == <<"{", "}">>

\* The value has no encoding (a channel or function field, a failing
\* MarshalJSON).
NotEncodable == <<>>

NilErr == [nodes |-> <<>>, tail |-> NilTail]

\* err == nil
IsNil(e) == e.nodes = <<>> /\ e.tail.tag = "nil"

\* e, ok := err.(*Error)
IsNode(e) == e.nodes # <<>>

\* The fields of the node itself.
Own(e) == Head(e.nodes)

\* e.Err
Cause(e) == [nodes |-> Tail(e.nodes), tail |-> e.tail]

\* The struct literal Error{...} / &Error{...}.
ErrorNode(kind, status, message, op, cause) ==
  [nodes |-> <<[Kind |-> kind, Status |-> status, Message |-> message, Op |-> op]>>
               \o cause.nodes,
   tail |-> cause.tail]

NewError(op, status, message, kind, cause) == ErrorNode(kind, status, message, op, cause)

(***************************************************************************)
(* Error.go: the chain resolvers.  Each is computed with the number of     *)
(* calls the recursion makes (val: the value returned, calls: the calls).  *)
(***************************************************************************)
\* A variant of ErrorKind that asks the cause twice: once to see whether it
\* has a Kind, once more to return it.
RECURSIVE ErrorKindRun_AsksTwice(_)
ErrorKindRun_AsksTwice(e) ==
  IF IsNil(e) THEN [val |-> "", calls |-> 1]
  ELSE IF IsNode(e) /\ Own(e).Kind # "" THEN [val |-> Own(e).Kind, calls |-> 1]
  ELSE IF IsNode(e) /\ ~IsNil(Cause(e))
       THEN LET r == ErrorKindRun_AsksTwice(Cause(e))
            IN [val |-> r.val, calls |-> 2 * r.calls + 1]
  ELSE [val |-> EINTERNAL, calls |-> 1]

RECURSIVE ErrorKindRun(_)
ErrorKindRun(e) ==
  IF IsNil(e) THEN [val |-> "", calls |-> 1]
  ELSE IF IsNode(e) /\ Own(e).Kind # "" THEN [val |-> Own(e).Kind, calls |-> 1]
  ELSE IF IsNode(e) /\ ~IsNil(Cause(e))
       THEN LET r == ErrorKindRun(Cause(e)) IN [val |-> r.val, calls |-> r.calls + 1]
  ELSE [val |-> EINTERNAL, calls |-> 1]

\* A variant of ErrorKind that gives up at a node without a Kind instead of
\* searching its cause.
ErrorKind_NoDescend(e) ==
  IF IsNil(e) THEN ""
  ELSE IF IsNode(e) /\ Own(e).Kind # "" THEN Own(e).Kind
  ELSE EINTERNAL

ErrorKind(e) == ErrorKindRun(e).val

RECURSIVE ErrorMessageRun(_)
ErrorMessageRun(e) ==
  IF IsNil(e) THEN [val |-> "", calls |-> 1]
  ELSE IF IsNode(e) /\ Own(e).Message # "" THEN [val |-> Own(e).Message, calls |-> 1]
  ELSE IF IsNode(e) /\ ~IsNil(Cause(e))
       THEN LET r == ErrorMessageRun(Cause(e)) IN [val |-> r.val, calls |-> r.calls + 1]
  ELSE [val |-> GenericMessage, calls |-> 1]

\* A variant of ErrorMessage that falls back to the text of the error it
\* ends at instead of the generic text.
RECURSIVE ErrorMessage_Leaks(_)
ErrorMessage_Leaks(e) ==
  IF IsNil(e) THEN ""
  ELSE IF IsNode(e) /\ Own(e).Message # "" THEN Own(e).Message
  ELSE IF IsNode(e) /\ ~IsNil(Cause(e)) THEN ErrorMessage_Leaks(Cause(e))
  ELSE IF IsNode(e) THEN GenericMessage
  ELSE e.tail.text

ErrorMessage(e) == ErrorMessageRun(e).val

\* A variant of Is that compares the node's own Kind and never delegates to
\* the cause.
IsRun_NoDelegation(kind, e) ==
  IF ~IsNode(e) THEN [val |-> FALSE, calls |-> 1]
  ELSE [val |-> (Own(e).Kind = kind), calls |-> 1]

\* A variant of Is that delegates to the cause from a node without a Kind as
\* it does from an OTHER node.
RECURSIVE IsRun_DescendsOnUnset(_, _)
IsRun_DescendsOnUnset(kind, e) ==
  IF ~IsNode(e) THEN [val |-> FALSE, calls |-> 1]
  ELSE IF Own(e).Kind # Other /\ Own(e).Kind # ""
       THEN [val |-> (Own(e).Kind = kind), calls |-> 1]
  ELSE IF ~IsNil(Cause(e))
       THEN LET r == IsRun_DescendsOnUnset(kind, Cause(e))
            IN [val |-> r.val, calls |-> r.calls + 1]
  ELSE [val |-> FALSE, calls |-> 1]

\* A variant of Is that, at an OTHER node without a cause, compares the
\* node's Kind like at any other node.
RECURSIVE IsRun_OtherAtEnd(_, _)
IsRun_OtherAtEnd(kind, e) ==
  IF ~IsNode(e) THEN [val |-> FALSE, calls |-> 1]
  ELSE IF Own(e).Kind = Other /\ ~IsNil(Cause(e))
       THEN LET r == IsRun_OtherAtEnd(kind, Cause(e))
            IN [val |-> r.val, calls |-> r.calls + 1]
  ELSE [val |-> (Own(e).Kind = kind), calls |-> 1]

RECURSIVE IsRun(_, _)
IsRun(kind, e) ==
  IF ~IsNode(e) THEN [val |-> FALSE, calls |-> 1]
  ELSE IF Own(e).Kind # Other THEN [val |-> (Own(e).Kind = kind), calls |-> 1]
  ELSE IF ~IsNil(Cause(e))
       THEN LET r == IsRun(kind, Cause(e)) IN [val |-> r.val, calls |-> r.calls + 1]
  ELSE [val |-> FALSE, calls |-> 1]

Is(kind, e) == IsRun(kind, e).val

(***************************************************************************)
(* Error.go: the Error method, the operator-facing display string.  A      *)
(* foreign error's Error() returns its text.                               *)
(***************************************************************************)
\* A variant of Error that prints the node's own Kind although the node
\* wraps a cause.
RECURSIVE Error_PrintsOwnKind(_)
Error_PrintsOwnKind(e) ==
  IF ~IsNode(e) THEN e.tail.text
  ELSE (IF Own(e).Op # "" THEN Own(e).Op \o ": " ELSE "")
       \o (IF Own(e).Kind # "" THEN "<" \o Own(e).Kind \o "> " ELSE "")
       \o (IF ~IsNil(Cause(e)) THEN Error_PrintsOwnKind(Cause(e)) ELSE Own(e).Message)

\* A variant of Error that prints the operation only in front of a cause.
RECURSIVE Error_DropsOpWithoutCause(_)
Error_DropsOpWithoutCause(e) ==
  IF ~IsNode(e) THEN e.tail.text
  ELSE IF ~IsNil(Cause(e))
       THEN (IF Own(e).Op # "" THEN Own(e).Op \o ": " ELSE "")
            \o Error_DropsOpWithoutCause(Cause(e))
  ELSE (IF Own(e).Kind # "" THEN "<" \o Own(e).Kind \o "> " ELSE "") \o Own(e).Message

RECURSIVE Error(_)
Error(e) ==
  IF ~IsNode(e) THEN e.tail.text
  ELSE (IF Own(e).Op # "" THEN Own(e).Op \o ": " ELSE "")
       \o (IF ~IsNil(Cause(e))
           THEN Error(Cause(e))
           ELSE (IF Own(e).Kind # "" THEN "<" \o Own(e).Kind \o "> " ELSE "")
                \o Own(e).Message)

(***************************************************************************)
(* Error.go: ResponseBody and ResponseHeaders.                             *)
(***************************************************************************)
\* What json.Marshal reports when a value of the chain cannot be encoded.
MarshalErrText == "json: unsupported type"

\* encoding/json on the error value held by an Err field (or on the node
\* itself): the exported fields of the struct in declaration order, the Err
\* interface encoded as the value it holds; nil is null, a foreign error is
\* encoded as its own type is.
RECURSIVE MarshalJSON(_)
MarshalJSON(e) ==
  IF ~IsNode(e) THEN e.tail.json
  ELSE <<"{", "Kind", Own(e).Kind, "Status", ToString(Own(e).Status),
         "Message", Own(e).Message, "Op", Own(e).Op, "Err">>
       \o MarshalJSON(Cause(e)) \o <<"}">>

\* body, err := json.Marshal(e): the encoding fails when it reaches a value
\* it cannot encode.
ResponseBody(e) ==
  IF e.tail.json # NotEncodable
  THEN [bytes |-> MarshalJSON(e), err |-> NilErr]
  ELSE [bytes |-> <<>>,
        err |-> [nodes |-> <<>>,
                 tail |-> ForeignErr("Error while parsing response body: "
                                     \o MarshalErrText, EmptyObject)]]

\* The fixed header set.
JSONHeaders ==
  { <<"Content-Type", "application/json; charset=utf-8">>,
    <<"X-Content-Type-Options", "nosniff">> }

\* return e.Kind, map[string]string{...}: the first result is the node's
\* Kind, a string, where the ClientError interface has the int status code;
\* the second is the header map (its second entry is written with a comma
\* for the colon).
ResponseHeaders(e) == [status |-> Own(e).Kind, headers |-> JSONHeaders]

\* clientError, ok := err.(ClientError): the value has the three methods
\* Error, ResponseBody and ResponseHeaders, which only a chain node has
\* (testHandler returns its nodes as Error{...} values; they are taken as
\* the *Error nodes that carry the methods).
IsClientError(e) == IsNode(e)

\* The status w.WriteHeader(code) puts on the wire, as text: what
\* ResponseHeaders hands to WriteHeader is a string.
StatusText(code) == ToString(code)

(***************************************************************************)
(* The state.                                                              *)
(***************************************************************************)
NoResp == [headers |-> {}, status |-> "", body |-> <<>>]
NoBody == [bytes |-> <<>>, err |-> NilErr]
NoMeta == [status |-> "", headers |-> {}]
NoRes ==
  [kind |-> "", message |-> "", display |-> "", is |-> <<>>,
   calls |-> [kind |-> 0, message |-> 0]]

\* The kinds a caller asks Is about: every code of codes.go and the empty kind.
QueryKinds ==
  <<"", ECONFLICT, PERMISSION, EINTERNAL, EINVALID, ENOTFOUND, EEXIST, Other,
    MethodNotAllowed, EPARSE>>

\* The fields the layers of a handler give their nodes.
WrapKinds == {"", Other, EINVALID, ENOTFOUND, ECONFLICT}
WrapStatuses == {0, 409}
OpNames == <<"A", "B", "C", "D">>
Messages == <<"m", "m2", "m3", "m4">>
LayerOp(d) == OpNames[((d - 1) % Len(OpNames)) + 1]
LayerMessage(d) == Messages[((d - 1) % Len(Messages)) + 1]

\* The low-level failures of other packages.
ForeignErrors ==
  { ForeignErr("syntax error at or near INSERT", EmptyObject),
    ForeignErr("sql: no rows in result set", EmptyObject),
    ForeignErr("stream closed", NotEncodable) }

Fresh ==
  /\ err = NilErr
  /\ log = <<>>
  /\ resp = NoResp
  /\ trace = <<>>
  /\ body = NoBody
  /\ pending = NoMeta
  /\ res = NoRes

Init ==
  /\ pc = "main"
  /\ running = TRUE
  /\ Fresh

(***************************************************************************)
(* handler.go: main.  ListenAndServe either serves requests or returns an  *)
(* error, which log.Fatal reports before it ends the process.              *)
(***************************************************************************)
Main ==
  /\ pc = "main"
  /\ \E listening \in BOOLEAN :
       IF listening
       THEN /\ pc' = "handler"
            /\ UNCHANGED <<running, log>>
       ELSE /\ pc' = "exited"
            /\ running' = FALSE
            /\ log' = Append(log, "listen tcp :8080: bind: address already in use")
  /\ UNCHANGED <<err, resp, trace, body, pending, res>>

(***************************************************************************)
(* The layers below the handler (serviceExample.go): a low-level call      *)
(* fails with a foreign error, and each layer wraps what it got in a new   *)
(* node, or builds a node of its own when it detects the failure itself.   *)
(***************************************************************************)
Fail(f) ==
  /\ pc = "handler"
  /\ IsNil(err)
  /\ err' = [nodes |-> <<>>, tail |-> f]
  /\ UNCHANGED <<pc, log, resp, trace, body, pending, res, running>>

Wrap(op, status, message, kind) ==
  /\ pc = "handler"
  /\ Len(err.nodes) < MaxDepth
  /\ err' = NewError(op, status, message, kind, err)
  /\ UNCHANGED <<pc, log, resp, trace, body, pending, res, running>>

\* The application role: code that holds the error asks the resolvers
\* about it and prints it.
Inspect ==
  /\ pc = "handler"
  /\ res' = [kind |-> ErrorKind(err),
             message |-> ErrorMessage(err),
             display |-> Error(err),
             is |-> [i \in 1..Len(QueryKinds) |-> IsRun(QueryKinds[i], err)],
             calls |-> [kind |-> ErrorKindRun(err).calls,
                        message |-> ErrorMessageRun(err).calls]]
  /\ pc' = "inspected"
  /\ UNCHANGED <<err, log, resp, trace, body, pending, running>>

(***************************************************************************)
(* handler.go: testHandler, the handler function of the example.           *)
(***************************************************************************)
TestHandlerResult(method, readOk, parseOk, loginErr, loginOk) ==
  IF method # "POST"
  THEN ErrorNode(MethodNotAllowed, 405, "Method not allowed", "testHandler", NilErr)
  ELSE IF ~readOk
  THEN [nodes |-> <<>>,
        tail |-> ForeignErr("Request body read error : unexpected EOF", EmptyObject)]
  ELSE IF ~parseOk
  THEN ErrorNode(EPARSE, 400, "Unable to marshal resource", "testHandler",
                 [nodes |-> <<>>,
                  tail |-> ForeignErr("unexpected end of JSON input",
                                     <<"{", "Offset", "0", "}">>)])
  ELSE IF loginErr
  THEN [nodes |-> <<>>,
        tail |-> ForeignErr("loginUser DB error : connection refused", EmptyObject)]
  ELSE IF ~loginOk
  THEN ErrorNode(EINVALID, 422, "Wrong password or username", "", NilErr)
  ELSE NilErr

TestHandler ==
  /\ pc = "handler"
  /\ IsNil(err)
  /\ \E method \in {"POST", "GET"}, readOk, parseOk, loginErr, loginOk \in BOOLEAN :
       LET r == TestHandlerResult(method, readOk, parseOk, loginErr, loginOk) IN
         /\ err' = r
         /\ IF IsNil(r)
            THEN /\ resp' = [resp EXCEPT !.status = StatusText(200)]
                 /\ trace' = Append(trace, "WriteHeader")
            ELSE UNCHANGED <<resp, trace>>
  /\ pc' = "returned"
  /\ UNCHANGED <<log, body, pending, res, running>>

\* Any other handler function: it returns the error its layers built.
Return ==
  /\ pc = "handler"
  /\ pc' = "returned"
  /\ UNCHANGED <<err, log, resp, trace, body, pending, res, running>>

(***************************************************************************)
(* handler.go: rootHandler.ServeHttp, one action per statement.            *)
(***************************************************************************)
\* A variant of ServeNil that answers the request itself, logging and
\* writing a status although the handler returned no error.
ServeNil_Answers ==
  /\ pc = "returned"
  /\ IsNil(err)
  /\ log' = Append(log, "An error occured. %!v(<nil>)")
  /\ resp' = [resp EXCEPT !.status = StatusText(500)]
  /\ trace' = trace \o <<"log", "WriteHeader">>
  /\ pc' = "done"
  /\ UNCHANGED <<err, body, pending, res, running>>

\* err := fn(w, r); if err == nil { return }
ServeNil ==
  /\ pc = "returned"
  /\ IsNil(err)
  /\ pc' = "done"
  /\ UNCHANGED <<err, log, resp, trace, body, pending, res, running>>

\* A variant of ServeLog that goes on without writing the log entry.
ServeLog_Skips ==
  /\ pc = "returned"
  /\ ~IsNil(err)
  /\ pc' = "logged"
  /\ UNCHANGED <<err, log, resp, trace, body, pending, res, running>>

\* log.Printf("An error occured. %v", err)
ServeLog ==
  /\ pc = "returned"
  /\ ~IsNil(err)
  /\ log' = Append(log, "An error occured. " \o Error(err))
  /\ trace' = Append(trace, "log")
  /\ pc' = "logged"
  /\ UNCHANGED <<err, resp, body, pending, res, running>>

\* A variant of ServeServerError that sends the error's text with the 500.
ServeServerError_Leaks ==
  /\ pc = "logged"
  /\ ~IsClientError(err)
  /\ resp' = [resp EXCEPT !.status = StatusText(500), !.body = <<Error(err)>>]
  /\ trace' = trace \o <<"WriteHeader", "Write">>
  /\ pc' = "done"
  /\ UNCHANGED <<err, log, body, pending, res, running>>

\* clientError, ok := err.(ClientError); if !ok { w.WriteHeader(500); return }
ServeServerError ==
  /\ pc = "logged"
  /\ ~IsClientError(err)
  /\ resp' = [resp EXCEPT !.status = StatusText(500)]
  /\ trace' = Append(trace, "WriteHeader")
  /\ pc' = "done"
  /\ UNCHANGED <<err, log, body, pending, res, running>>

\* body, err := clientError.ResponseBody()
ServeResponseBody ==
  /\ pc = "logged"
  /\ IsClientError(err)
  /\ body' = ResponseBody(err)
  /\ trace' = Append(trace, "ResponseBody")
  /\ pc' = "marshalled"
  /\ UNCHANGED <<err, log, resp, pending, res, running>>

\* A variant of ServeBodyError that sends the serialization error's text
\* with the 500.
ServeBodyError_Leaks ==
  /\ pc = "marshalled"
  /\ ~IsNil(body.err)
  /\ log' = Append(log, "An error accured: " \o Error(body.err))
  /\ resp' = [resp EXCEPT !.status = StatusText(500), !.body = <<Error(body.err)>>]
  /\ trace' = trace \o <<"log", "WriteHeader", "Write">>
  /\ pc' = "done"
  /\ UNCHANGED <<err, body, pending, res, running>>

\* if err != nil { log.Printf("An error accured: %v", err); w.WriteHeader(500); return }
ServeBodyError ==
  /\ pc = "marshalled"
  /\ ~IsNil(body.err)
  /\ log' = Append(log, "An error accured: " \o Error(body.err))
  /\ resp' = [resp EXCEPT !.status = StatusText(500)]
  /\ trace' = trace \o <<"log", "WriteHeader">>
  /\ pc' = "done"
  /\ UNCHANGED <<err, body, pending, res, running>>

\* status, headers := clientError.ResponseHeaders()
ServeResponseHeaders ==
  /\ pc = "marshalled"
  /\ IsNil(body.err)
  /\ pending' = ResponseHeaders(err)
  /\ trace' = Append(trace, "ResponseHeaders")
  /\ pc' = "headers"
  /\ UNCHANGED <<err, log, resp, body, res, running>>

\* for k, v := range headers { w.Header().Set(k, v) }: one iteration, the map
\* being ranged over in an order the runtime chooses.
ServeSetHeader ==
  /\ pc = "headers"
  /\ \E h \in pending.headers :
       /\ resp' = [resp EXCEPT !.headers =
                     {x \in @ : x[1] # h[1]} \cup {h}]
       /\ pending' = [pending EXCEPT !.headers = @ \ {h}]
  /\ trace' = Append(trace, "Header.Set")
  /\ UNCHANGED <<err, pc, log, body, res, running>>

\* w.WriteHeader(status)
ServeWriteHeader ==
  /\ pc = "headers"
  /\ pending.headers = {}
  /\ resp' = [resp EXCEPT !.status = pending.status]
  /\ trace' = Append(trace, "WriteHeader")
  /\ pc' = "status"
  /\ UNCHANGED <<err, log, body, pending, res, running>>

\* w.Write(body)
ServeWrite ==
  /\ pc = "status"
  /\ resp' = [resp EXCEPT !.body = @ \o body.bytes]
  /\ trace' = Append(trace, "Write")
  /\ pc' = "done"
  /\ UNCHANGED <<err, log, body, pending, res, running>>

\* The server takes the next request.
NextRequest ==
  /\ pc = "done"
  /\ pc' = "handler"
  /\ err' = NilErr
  /\ log' = <<>>
  /\ resp' = NoResp
  /\ trace' = <<>>
  /\ body' = NoBody
  /\ pending' = NoMeta
  /\ res' = NoRes
  /\ UNCHANGED running

Next ==
  \/ Main
  \/ \E f \in ForeignErrors : Fail(f)
  \/ \E d \in {Len(err.nodes) + 1} :
       \E op \in {"", LayerOp(d)}, status \in WrapStatuses,
          message \in {"", LayerMessage(d)}, kind \in WrapKinds :
         Wrap(op, status, message, kind)
  \/ Inspect
  \/ TestHandler
  \/ Return
  \/ ServeNil
  \/ ServeLog
  \/ ServeServerError
  \/ ServeResponseBody
  \/ ServeBodyError
  \/ ServeResponseHeaders
  \/ ServeSetHeader
  \/ ServeWriteHeader
  \/ ServeWrite
  \/ NextRequest

Spec == Init /\ [][Next]_vars

(***************************************************************************)
(* Properties.                                                             *)
(***************************************************************************)
Inspected == pc = "inspected"

NodeIndexes(e) == DOMAIN e.nodes

Min(S) == CHOOSE i \in S : \A j \in S : i <= j

Count(seq, x) == Cardinality({i \in DOMAIN seq : seq[i] = x})

\* The position of k in QueryKinds.
QueryIndex(k) == CHOOSE i \in DOMAIN QueryKinds : QueryKinds[i] = k

\* The Kind of the first node, from the outermost inwards, that has one.
FirstKind(e) ==
  LET S == {i \in NodeIndexes(e) : e.nodes[i].Kind # ""}
  IN IF IsNil(e) THEN ""
     ELSE IF S = {} THEN EINTERNAL
     ELSE e.nodes[Min(S)].Kind

\* C1: ErrorKind(err) is "" for nil, otherwise the Kind of the first node,
\* from err inwards, whose Kind is non-empty, otherwise EINTERNAL; so a chain
\* in which only the innermost node sets Kind = X resolves to X at every
\* depth, and a non-nil chain without any Kind resolves to EINTERNAL.
C1_ErrorKindFirstSet ==
  Inspected =>
    /\ res.kind = FirstKind(err)
    /\ IsNil(err) => res.kind = ""
    /\ (~IsNil(err) /\ \A i \in NodeIndexes(err) : err.nodes[i].Kind = "")
         => res.kind = EINTERNAL
    /\ (/\ IsNode(err)
        /\ err.nodes[Len(err.nodes)].Kind # ""
        /\ \A i \in 1..(Len(err.nodes) - 1) : err.nodes[i].Kind = "")
         => res.kind = err.nodes[Len(err.nodes)].Kind

C1_Witness ==
  /\ Inspected
  /\ Len(err.nodes) >= 2
  /\ \A i \in 1..(Len(err.nodes) - 1) : err.nodes[i].Kind = ""
  /\ err.nodes[Len(err.nodes)].Kind = ENOTFOUND
  /\ res.kind = ENOTFOUND

\* C2: ErrorMessage never exposes foreign-error text: the result is "" only
\* for nil, otherwise the Message of a chain node or the generic text; chains
\* that differ only in the foreign error at their end give the same result,
\* and a chain without any Message that ends in a foreign error gives the
\* generic text.
C2_ErrorMessageNoForeignText ==
  Inspected =>
    /\ IF IsNil(err)
       THEN res.message = ""
       ELSE res.message \in
              ({err.nodes[i].Message : i \in NodeIndexes(err)} \ {""})
                \cup {GenericMessage}
    /\ err.tail.tag = "foreign" =>
         /\ res.message # err.tail.text
         /\ \A f \in ForeignErrors :
              ErrorMessage([err EXCEPT !.tail = f]) = res.message
         /\ (\A i \in NodeIndexes(err) : err.nodes[i].Message = "")
              => res.message = GenericMessage

C2_Witness ==
  /\ Inspected
  /\ IsNode(err)
  /\ err.tail.tag = "foreign"
  /\ \A i \in NodeIndexes(err) : err.nodes[i].Message = ""
  /\ res.message = GenericMessage

\* Whether the node Is stops at has a set Kind equal to k: Is descends into
\* Err from the nodes whose Kind is OTHER, and only from those.
NearestKindIs(k, e) ==
  LET S == {i \in NodeIndexes(e) : e.nodes[i].Kind # Other}
  IN /\ S # {}
     /\ e.nodes[Min(S)].Kind # ""
     /\ e.nodes[Min(S)].Kind = k

\* Whether the node Is stops at has no Kind.
NearestKindUnset(e) ==
  LET S == {i \in NodeIndexes(e) : e.nodes[i].Kind # Other}
  IN S # {} /\ e.nodes[Min(S)].Kind = ""

\* C3 as stated: for every kind K, Is(K, node) is true if and only if the
\* nearest node, by the traversal of Is, with a non-OTHER, non-empty Kind
\* has Kind K; false for nil and for a foreign error.
C3_AsStated ==
  Inspected =>
    \A i \in DOMAIN QueryKinds :
      res.is[i].val = NearestKindIs(QueryKinds[i], err)

\* C3, amended: for every non-empty kind K, Is(K, node) is true if and only
\* if the nearest node, by the traversal of Is, with a non-OTHER Kind has a
\* non-empty Kind equal to K, and Is("", node) is true exactly when that node
\* has no Kind; a node whose own Kind is EINVALID never matches ENOTFOUND,
\* whatever its cause; Is is false for nil and for a foreign error.
C3_IsNearestKind ==
  Inspected =>
    /\ \A i \in DOMAIN QueryKinds :
         res.is[i].val =
           IF QueryKinds[i] = ""
           THEN NearestKindUnset(err)
           ELSE NearestKindIs(QueryKinds[i], err)
    /\ (IsNode(err) /\ Own(err).Kind = EINVALID)
         => ~res.is[QueryIndex(ENOTFOUND)].val
    /\ ~IsNode(err) => \A i \in DOMAIN QueryKinds : ~res.is[i].val

C3_Witness ==
  /\ Inspected
  /\ Len(err.nodes) >= 2
  /\ err.nodes[1].Kind = Other
  /\ err.nodes[2].Kind = ENOTFOUND
  /\ res.is[QueryIndex(ENOTFOUND)].val
  /\ ~res.is[QueryIndex(EINVALID)].val

\* C4 as stated: when the node's own Kind is unset, Is(K, node) is false for
\* every queried kind K, the empty kind included, without recursing.
C4_AsStated ==
  (Inspected /\ IsNode(err) /\ Own(err).Kind = "") =>
    \A i \in DOMAIN QueryKinds : ~res.is[i].val /\ res.is[i].calls = 1

\* C4, amended: when the node's own Kind is unset, Is(K, node) is false for
\* every non-empty queried kind K and true for the empty kind, in both cases
\* without recursing into the node's cause.
C4_IsUnsetNoDelegation ==
  (Inspected /\ IsNode(err) /\ Own(err).Kind = "") =>
    \A i \in DOMAIN QueryKinds :
      /\ res.is[i].val = (QueryKinds[i] = "")
      /\ res.is[i].calls = 1

C4_Witness ==
  /\ Inspected
  /\ Len(err.nodes) >= 2
  /\ err.nodes[1].Kind = ""
  /\ err.nodes[2].Kind = ENOTFOUND
  /\ ~res.is[QueryIndex(ENOTFOUND)].val
  /\ res.is[QueryIndex("")].val
  /\ res.is[QueryIndex(ENOTFOUND)].calls = 1

\* "op: " for a set operation label, nothing for an unset one.
OpPrefix(op) == IF op = "" THEN "" ELSE op \o ": "

\* "<kind> " for a set Kind, nothing for an unset one.
KindPrefix(kind) == IF kind = "" THEN "" ELSE "<" \o kind \o "> "

\* The operation labels of the nodes i.. of a chain, outermost first.
RECURSIVE OpTrail(_, _)
OpTrail(nodes, i) ==
  IF i > Len(nodes) THEN "" ELSE OpPrefix(nodes[i].Op) \o OpTrail(nodes, i + 1)

\* C5: a node whose Err is non-nil displays as Op + ": " + Err.Error() (no
\* prefix when Op is empty) and prints neither its own Kind nor its own
\* Message; a chain of wrapping nodes with labels op1 .. opN that ends in a
\* foreign error with text T displays as exactly "op1: ...: opN: T".
C5_ErrorWrapsCause ==
  (Inspected /\ IsNode(err) /\ ~IsNil(Cause(err))) =>
    /\ res.display = OpPrefix(Own(err).Op) \o Error(Cause(err))
    /\ \A k \in WrapKinds, m \in {"", LayerMessage(Len(err.nodes))} :
         Error([err EXCEPT !.nodes[1].Kind = k, !.nodes[1].Message = m])
           = res.display
    /\ err.tail.tag = "foreign" =>
         res.display = OpTrail(err.nodes, 1) \o err.tail.text

C5_Witness ==
  /\ Inspected
  /\ Len(err.nodes) = 2
  /\ err.nodes[1].Op = "B"
  /\ err.nodes[2].Op = "A"
  /\ err.nodes[1].Kind # ""
  /\ err.nodes[1].Message # ""
  /\ err.tail.tag = "foreign"
  /\ res.display = "B: A: " \o err.tail.text

\* C6 as stated: a node whose Err is nil displays as exactly
\* "<" + Kind + "> " + Message (the bracketed Kind omitted when empty), with
\* no operation prefix even when Op is set.
C6_AsStated ==
  (Inspected /\ IsNode(err) /\ IsNil(Cause(err))) =>
    res.display = KindPrefix(Own(err).Kind) \o Own(err).Message

\* C6, amended: a node whose Err is nil displays as Op + ": " (omitted when
\* Op is empty), then "<" + Kind + "> " (omitted when Kind is empty), then
\* Message; the node (op="A", status=409, message="m", kind=ECONFLICT,
\* err=nil) displays as exactly "A: <conflict> m".
C6_ErrorWithoutCause ==
  (Inspected /\ IsNode(err) /\ IsNil(Cause(err))) =>
    /\ res.display =
         OpPrefix(Own(err).Op) \o KindPrefix(Own(err).Kind) \o Own(err).Message
    /\ err = NewError("A", 409, "m", ECONFLICT, NilErr)
         => res.display = "A: <conflict> m"

C6_Witness ==
  /\ Inspected
  /\ err = NewError("A", 409, "m", ECONFLICT, NilErr)
  /\ res.display = "A: <conflict> m"

\* The effects on the response.
ResponseEvents == {"Header.Set", "WriteHeader", "Write"}

\* ServeHttp is past its nil check on a non-nil error.
Translating == pc \in {"logged", "marshalled", "headers", "status", "done"} /\ ~IsNil(err)

\* C7: for every non-nil error the handler returns, classified or not, the
\* full display string is logged, unconditionally and before any header,
\* status or body is written: no write to the response precedes the entry.
C7_LogBeforeResponse ==
  ~IsNil(err) =>
    /\ Translating =>
         /\ Len(log) >= 1
         /\ log[1] = "An error occured. " \o Error(err)
         /\ trace # <<>> /\ trace[1] = "log"
    /\ \A i \in DOMAIN trace :
         trace[i] \in ResponseEvents => \E j \in 1..(i - 1) : trace[j] = "log"
    /\ resp # NoResp => log # <<>>

C7_Witness ==
  /\ pc = "done"
  /\ log # <<>>
  /\ log[1] = "An error occured. testHandler: unexpected end of JSON input"
  /\ resp.status # ""

\* The elements of a sequence.
Range(seq) == {seq[i] : i \in DOMAIN seq}

\* C8: when the handler's error is a ClientError and ResponseBody succeeds,
\* the translator sets every header of the fixed set, then writes the status,
\* then the body, the status being the node's own Status field and the body
\* containing the node's Kind and Message; the wrong-method node yields 405.
C8_ClassifiedResponse ==
  (pc = "done" /\ IsClientError(err) /\ IsNil(body.err)) =>
    /\ trace = <<"log", "ResponseBody", "ResponseHeaders",
                 "Header.Set", "Header.Set", "WriteHeader", "Write">>
    /\ resp.headers = JSONHeaders
    /\ resp.status = StatusText(Own(err).Status)
    /\ {Own(err).Kind, Own(err).Message} \subseteq Range(resp.body)
    /\ Own(err).Kind = MethodNotAllowed =>
         /\ resp.status = "405"
         /\ {"method_not_allowed", "Method not allowed"} \subseteq Range(resp.body)

\* The parts of C8 other than the status: the order of the writes, the
\* header set and the content of the body.
C8_OrderHeadersBody ==
  (pc = "done" /\ IsClientError(err) /\ IsNil(body.err)) =>
    /\ trace = <<"log", "ResponseBody", "ResponseHeaders",
                 "Header.Set", "Header.Set", "WriteHeader", "Write">>
    /\ resp.headers = JSONHeaders
    /\ {Own(err).Kind, Own(err).Message} \subseteq Range(resp.body)

\* The opaque 500: the status alone.
Opaque500 == [headers |-> {}, status |-> "500", body |-> <<>>]

\* C9: when the handler's non-nil error is not a ClientError the response is
\* the opaque 500: status 500, no header, no body byte, and neither
\* ResponseBody nor ResponseHeaders is called.
C9_UnclassifiedOpaque500 ==
  (~IsNil(err) /\ ~IsClientError(err)) =>
    /\ resp \in {NoResp, Opaque500}
    /\ pc = "done" => resp = Opaque500
    /\ Range(trace) \subseteq {"log", "WriteHeader"}
    /\ body = NoBody /\ pending = NoMeta

C9_Witness ==
  /\ pc = "done"
  /\ err.nodes = <<>>
  /\ err.tail.tag = "foreign"
  /\ resp = Opaque500
  /\ trace = <<"log", "WriteHeader">>

\* C10: when ResponseBody of a classified error fails, the response is
\* exactly the opaque 500 whatever the node's Kind, Status and Message; the
\* failure is logged, ResponseBody is not called again, the serialization
\* error is not serialized, and the dispatch ends with the process running.
C10_BodyFailureOpaque500 ==
  ~IsNil(body.err) =>
    /\ pc \in {"marshalled", "done"}
    /\ running
    /\ Count(trace, "ResponseBody") = 1
    /\ pc = "marshalled" => resp = NoResp
    /\ pc = "done" =>
         /\ resp = Opaque500
         /\ trace = <<"log", "ResponseBody", "log", "WriteHeader">>
         /\ Len(log) = 2
         /\ log[2] = "An error accured: " \o Error(body.err)
         /\ ENABLED NextRequest

C10_Witness ==
  /\ pc = "done"
  /\ ~IsNil(body.err)
  /\ Own(err).Kind = ECONFLICT
  /\ Own(err).Status = 409
  /\ Own(err).Message # ""
  /\ resp = Opaque500

\* ServeHttp has called w.WriteHeader.
StatusWritten == "WriteHeader" \in Range(trace)

\* C11: the status written for a failing request is the outermost node's
\* own Status field, and is 500 whenever that Status is unset (zero) or the
\* error is unclassified: no execution on a non-nil error writes a status of
\* 0 or any value other than the node's set Status or 500.
C11_StatusIsOwnStatusOr500 ==
  (~IsNil(err) /\ StatusWritten) =>
    /\ resp.status # StatusText(0)
    /\ resp.status \in
         {StatusText(500)} \cup
           (IF IsClientError(err) /\ Own(err).Status # 0
            THEN {StatusText(Own(err).Status)}
            ELSE {})
    /\ (IsClientError(err) /\ IsNil(body.err) /\ Own(err).Status # 0)
         => resp.status = StatusText(Own(err).Status)
    /\ (~IsClientError(err) \/ ~IsNil(body.err) \/ Own(err).Status = 0)
         => resp.status = StatusText(500)

\* The nodes that have the own fields of e (Kind, Status, Message, Op) and
\* another Err: nil, a foreign error, or a node of a lower layer.
SameOwnFields(e) ==
  { [nodes |-> <<Own(e)>> \o inner, tail |-> t] :
      inner \in {<<>>, <<[Kind |-> ENOTFOUND, Status |-> 0,
                          Message |-> "m", Op |-> "A"]>>},
      t \in {NilTail} \cup ForeignErrors }

\* The operation labels below the outermost node.
InnerOps(e) == {e.nodes[i].Op : i \in 2..Len(e.nodes)} \ {""}

\* C12: what is written to the client for a classified error depends only
\* on the outermost node's own fields, not on its cause: ResponseBody
\* serializes the node's own fields and not the chain, so nodes equal in
\* Kind, Status, Message and Op but with different Err produce the same
\* response, and the operation chain reaches the log only, never the client.
C12_ResponseIgnoresCause ==
  (IsClientError(err) /\ pc \in {"marshalled", "headers", "status", "done"}) =>
    /\ \A other \in SameOwnFields(err) : ResponseBody(other) = body
    /\ InnerOps(err) \cap Range(resp.body) = {}
    /\ pc = "done" =>
         resp.body = IF IsNil(body.err)
                     THEN MarshalJSON([nodes |-> <<Own(err)>>, tail |-> NilTail])
                     ELSE <<>>

\* What the handler of the example leaves on the response when it succeeds.
HandlerOK == [headers |-> {}, status |-> StatusText(200), body |-> <<>>]

\* C13: when the handler returns a nil error the translator does nothing:
\* it writes no log entry, sets no header, writes no status and no body, and
\* leaves what the handler wrote to the response (its status 200) unchanged.
C13_NilErrorUntouched ==
  [][(pc = "returned" /\ IsNil(err)) =>
       /\ pc' = "done"
       /\ log' = log /\ log' = <<>>
       /\ resp' = resp /\ resp' \in {NoResp, HandlerOK}
       /\ trace' = trace
       /\ body' = NoBody /\ pending' = NoMeta]_vars

C13_Witness ==
  /\ pc = "done"
  /\ IsNil(err)
  /\ log = <<>>
  /\ resp = HandlerOK
  /\ trace = <<"WriteHeader">>

\* The nodes of the chain at which a resolver goes on to the cause: the
\* nodes before the first one at which `stops` holds.
Descents(e, stops(_)) ==
  LET S == {i \in NodeIndexes(e) : stops(e.nodes[i])}
  IN IF S = {} THEN Len(e.nodes) ELSE Min(S) - 1

HasKind(n) == n.Kind # ""
HasMessage(n) == n.Message # ""
NotOther(n) == n.Kind # Other

\* C14: ErrorKind, ErrorMessage and Is are total and terminate on every
\* finite chain ending in nil or a foreign error: each recursive step moves
\* one node inwards along Err, so on a chain of N nodes each returns after at
\* most N + 1 calls, one per value visited and none visited twice.
C14_ResolversTerminate ==
  Inspected =>
    LET N == Len(err.nodes)
        \* After d descents the resolver is at node d + 1 or, past the last
        \* node, at a foreign error; it does not descend into a nil Err.
        last(d) == IF d = N /\ N > 0 /\ err.tail.tag = "nil" THEN N ELSE d + 1
    IN /\ res.calls.kind \in 1..(N + 1)
       /\ res.calls.message \in 1..(N + 1)
       /\ \A i \in DOMAIN QueryKinds : res.is[i].calls \in 1..(N + 1)
       /\ res.calls.kind = last(Descents(err, HasKind))
       /\ res.calls.message = last(Descents(err, HasMessage))
       /\ \A i \in DOMAIN QueryKinds :
            res.is[i].calls = last(Descents(err, NotOther))
       /\ res.kind \in {"", EINTERNAL} \cup WrapKinds
       /\ res.message \in {"", GenericMessage} \cup Range(Messages)
       /\ \A i \in DOMAIN QueryKinds : res.is[i].val \in BOOLEAN

C14_Witness ==
  /\ Inspected
  /\ Len(err.nodes) = MaxDepth
  /\ err.tail.tag = "foreign"
  /\ \A i \in NodeIndexes(err) :
       err.nodes[i].Kind = Other /\ err.nodes[i].Message = ""
  /\ res.calls.message = MaxDepth + 1
  /\ res.is[QueryIndex(ENOTFOUND)].calls = MaxDepth + 1
  /\ res.calls.kind = 1

====
